---- MODULE Spec2Model ----
(***************************************************************************)
(* A model of package gopatterns: the stream combinators Confine, Repeat,  *)
(* Take, FanIn, OrDone, Tee, Bridge and Or, each a goroutine (or several)  *)
(* bridging channels under a context's Done signal.                        *)
(*                                                                         *)
(* Channels the caller supplies are entries of `channels`: what their      *)
(* producer still has to send, what it has delivered, and whether it has   *)
(* closed them.  Channels a combinator returns to its caller are entries   *)
(* of `outs`: what the consumer has received, how often close() was called *)
(* on them, and whether the consumer is still receiving.  An unbuffered    *)
(* send and its receive are one step (a rendezvous).  A select statement   *)
(* is a nondeterministic choice among its ready cases.                     *)
(***************************************************************************)
EXTENDS Naturals, Sequences, FiniteSets

VARIABLES ctxDone, channels, outs, take, drain, wg, closer, ordone, tee,
          bridge, ortasks, orResult, confine, repeat

vars == <<ctxDone, channels, outs, take, drain, wg, closer, ordone, tee,
          bridge, ortasks, orResult,
                   confine, repeat>>

(* ------------------------------ bounds -------------------------------- *)

\* Longest input stream the caller supplies.
MaxLen == 2

\* Values sent on the caller's streams are 1..MaxVal.
MaxVal == 2

\* Largest num handed to Take.
MaxNum == 3

\* Most channels handed to FanIn.
MaxK == 2

\* Most values the channels handed to FanIn, or the inner streams handed to
\* Bridge, carry between them.
MaxTotal == 3

\* Most inner streams the outer stream handed to Bridge delivers.
MaxStreams == 2

\* Most channels handed to Or.
MaxN == 5

\* Most functions handed to Confine.
MaxFns == 3

\* Most values a consumer of Repeat takes.
MaxTake == 7

(* ------------------------- values and sequences ----------------------- *)

\* The zero value of T: what a receive from a closed channel yields.
Zero == 0

Values == 1..MaxVal

SeqsUpTo(S, n) == UNION {[1..k -> S] : k \in 0..n}

Min(a, b) == IF a <= b THEN a ELSE b

Prefix(s, n) == SubSeq(s, 1, Min(n, Len(s)))

IsPrefix(s, t) == Len(s) <= Len(t) /\ s = SubSeq(t, 1, Len(s))

RECURSIVE SumLen(_, _)
\* The total length of the first n sequences of ss.
SumLen(ss, n) == IF n = 0 THEN 0 ELSE Len(ss[n]) + SumLen(ss, n - 1)

RECURSIVE Concat(_, _)
\* The first n sequences of ss, one after another.
Concat(ss, n) == IF n = 0 THEN <<>> ELSE Concat(ss, n - 1) \o ss[n]

RECURSIVE Count(_, _)
\* How often v occurs in s.
Count(s, v) ==
    IF s = <<>> THEN 0
    ELSE (IF Head(s) = v THEN 1 ELSE 0) + Count(Tail(s), v)

RECURSIVE CountAll(_, _, _)
\* How often v occurs in the first n sequences of ss.
CountAll(ss, n, v) ==
    IF n = 0 THEN 0 ELSE Count(ss[n], v) + CountAll(ss, n - 1, v)

RECURSIVE IsInterleaving(_, _)
\* s is a merge of the sequences ss: each of them is a subsequence of s, in
\* its own order, and together they account for every element of s.
IsInterleaving(s, ss) ==
    IF s = <<>>
    THEN \A k \in DOMAIN ss : ss[k] = <<>>
    ELSE \E k \in DOMAIN ss :
            /\ ss[k] # <<>>
            /\ Head(ss[k]) = Head(s)
            /\ IsInterleaving(Tail(s), [ss EXCEPT ![k] = Tail(@)])

\* A task or channel a specification does not use.
Idle == [pc |-> "idle"]

(* --------------------- channels the caller supplies ------------------- *)

\* A channel whose producer will send the values of s, in order.
NewChannel(s) == [pending |-> s, sent |-> <<>>, closed |-> FALSE]

\* Everything the producer of c sends over the channel's lifetime.
Original(c) == channels[c].sent \o channels[c].pending

\* A receive from c can complete: a value is on offer, or c is closed.
CanRecv(c) == channels[c].pending # <<>> \/ channels[c].closed

\* The ok of `v, ok := <-c`.
RecvOk(c) == channels[c].pending # <<>>

\* The v of `v, ok := <-c`: the zero value once c is closed and drained.
RecvVal(c) == IF RecvOk(c) THEN Head(channels[c].pending) ELSE Zero

\* `channels` after one receive from c.
AfterRecv(c) ==
    IF RecvOk(c)
    THEN [channels EXCEPT ![c].pending = Tail(@),
                          ![c].sent = Append(@, Head(channels[c].pending))]
    ELSE channels

\* The producer of c closes it, after its last send.
EnvClose(c) ==
    /\ ~channels[c].closed
    /\ channels[c].pending = <<>>
    /\ channels' = [channels EXCEPT ![c].closed = TRUE]
    /\ UNCHANGED <<ctxDone, outs, take, drain, wg, closer, ordone, tee,
                   bridge, ortasks, orResult,
                   confine, repeat>>

(* --------------------- channels a combinator returns ------------------ *)

NewOut == [recv |-> <<>>, closes |-> 0, reading |-> TRUE, misuse |-> FALSE]

\* A send on o can complete: the consumer is receiving.  (A send on a closed
\* channel does not block either: it panics.)
CanSend(o) == outs[o].reading \/ outs[o].closes > 0

\* `outs` after `o <- v`.
AfterSend(o, v) ==
    IF outs[o].closes > 0
    THEN [outs EXCEPT ![o].misuse = TRUE]
    ELSE [outs EXCEPT ![o].recv = Append(@, v)]

\* `outs` after close(o); closing a closed channel panics.
AfterClose(o) ==
    [outs EXCEPT ![o].closes = @ + 1,
                 ![o].misuse = @ \/ outs[o].closes > 0]

Closed(o) == outs[o].closes > 0

\* The consumer of o stops receiving.
ConsumerStop(o) ==
    /\ outs[o].reading
    /\ outs' = [outs EXCEPT ![o].reading = FALSE]
    /\ UNCHANGED <<ctxDone, channels, take, drain, wg, closer, ordone, tee,
                   bridge, ortasks, orResult,
                   confine, repeat>>

\* The owner of the context cancels it: ctx.Done() is closed, for good.
Cancel ==
    /\ ~ctxDone
    /\ ctxDone' = TRUE
    /\ UNCHANGED <<channels, outs, take, drain, wg, closer, ordone, tee,
                   bridge, ortasks, orResult,
                   confine, repeat>>

(* -------------------------------- Take -------------------------------- *)

\* for i := 0; i < num; i++
TakeFor ==
    /\ take.pc = "for"
    /\ take' = [take EXCEPT !.pc = IF take.i < take.num THEN "recv" ELSE "close"]
    /\ UNCHANGED <<ctxDone, channels, outs, drain, wg, closer, ordone, tee,
                   bridge, ortasks, orResult,
                   confine, repeat>>

\* Entering the select evaluates the send's right-hand side, <-stream: a plain
\* receive, outside the select's choice.
TakeRecv ==
    /\ take.pc = "recv"
    /\ CanRecv(1)
    /\ take' = [take EXCEPT !.pc = "select", !.v = RecvVal(1)]
    /\ channels' = AfterRecv(1)
    /\ UNCHANGED <<ctxDone, outs, drain, wg, closer, ordone, tee,
                   bridge, ortasks, orResult,
                   confine, repeat>>

\* select { case <-ctx.Done(): return; case taken <- v: }
TakeSelect ==
    /\ take.pc = "select"
    /\ \/ /\ ctxDone
          /\ take' = [take EXCEPT !.pc = "close"]
          /\ UNCHANGED outs
       \/ /\ CanSend("taken")
          /\ outs' = AfterSend("taken", take.v)
          /\ take' = [take EXCEPT !.pc = "for", !.i = @ + 1]
    /\ UNCHANGED <<ctxDone, channels, drain, wg, closer, ordone, tee,
                   bridge, ortasks, orResult,
                   confine, repeat>>

\* defer close(taken)
TakeClose ==
    /\ take.pc = "close"
    /\ outs' = AfterClose("taken")
    /\ take' = [take EXCEPT !.pc = "done"]
    /\ UNCHANGED <<ctxDone, channels, drain, wg, closer, ordone, tee,
                   bridge, ortasks, orResult,
                   confine, repeat>>

TakeStep == TakeFor \/ TakeRecv \/ TakeSelect \/ TakeClose

InitTake ==
    /\ ctxDone = FALSE
    /\ channels \in [{1} -> {NewChannel(s) : s \in SeqsUpTo(Values, MaxLen)}]
    /\ outs = [o \in {"taken"} |-> NewOut]
    /\ take \in {[pc |-> "for", i |-> 0, num |-> n, v |-> Zero] : n \in 0..MaxNum}
    /\ drain = Idle /\ wg = 0 /\ closer = Idle /\ ordone = Idle /\ tee = Idle
    /\ bridge = Idle /\ ortasks = <<>> /\ orResult = 0
    /\ confine = Idle /\ repeat = Idle

NextTake ==
    \/ TakeFor
    \/ TakeRecv
    \/ TakeSelect
    \/ TakeClose
    \/ EnvClose(1)
    \/ ConsumerStop("taken")
    \/ Cancel

SpecTake == InitTake /\ [][NextTake]_vars

\* The scheduler runs a goroutine that can take a step.
FairSpecTake == SpecTake /\ WF_vars(TakeStep)

\* C1: with the context never cancelled, once Take has returned its output
\* carries exactly the first min(num, L) values of the L-value input, in order.
TakeForwardsMin ==
    (take.pc = "done" /\ ~ctxDone)
        => outs["taken"].recv = Prefix(Original(1), take.num)

\* C2: once the context is cancelled, Take's output is eventually closed.
TakeCancelCloses == ctxDone ~> Closed("taken")

(* -------------------------------- FanIn ------------------------------- *)

\* drain: for val := range c.  The receive is a plain one: it waits for a
\* value or for c to be closed, and for nothing else.
DrainRange(k) ==
    /\ k \in DOMAIN drain
    /\ drain[k].pc = "range"
    /\ CanRecv(k)
    /\ drain' = [drain EXCEPT ![k] = IF RecvOk(k)
                                     THEN [pc |-> "select", val |-> RecvVal(k)]
                                     ELSE [@ EXCEPT !.pc = "defer"]]
    /\ channels' = AfterRecv(k)
    /\ UNCHANGED <<ctxDone, outs, take, wg, closer, ordone, tee,
                   bridge, ortasks, orResult,
                   confine, repeat>>

\* DrainSelect with a default case added to the select: a value nobody is
\* ready for may be skipped.
DrainSelectLossy(k) ==
    /\ k \in DOMAIN drain
    /\ drain[k].pc = "select"
    /\ \/ /\ ctxDone
          /\ drain' = [drain EXCEPT ![k].pc = "defer"]
          /\ UNCHANGED outs
       \/ /\ CanSend("multiplexed")
          /\ outs' = AfterSend("multiplexed", drain[k].val)
          /\ drain' = [drain EXCEPT ![k].pc = "range"]
       \/ /\ drain' = [drain EXCEPT ![k].pc = "range"]
          /\ UNCHANGED outs
    /\ UNCHANGED <<ctxDone, channels, take, wg, closer, ordone, tee,
                   bridge, ortasks, orResult,
                   confine, repeat>>

\* drain: select { case <-ctx.Done(): return; case multiplexed <- val: }
DrainSelect(k) ==
    /\ k \in DOMAIN drain
    /\ drain[k].pc = "select"
    /\ \/ /\ ctxDone
          /\ drain' = [drain EXCEPT ![k].pc = "defer"]
          /\ UNCHANGED outs
       \/ /\ CanSend("multiplexed")
          /\ outs' = AfterSend("multiplexed", drain[k].val)
          /\ drain' = [drain EXCEPT ![k].pc = "range"]
    /\ UNCHANGED <<ctxDone, channels, take, wg, closer, ordone, tee,
                   bridge, ortasks, orResult,
                   confine, repeat>>

\* drain: defer wg.Done()
DrainDone(k) ==
    /\ k \in DOMAIN drain
    /\ drain[k].pc = "defer"
    /\ wg' = wg - 1
    /\ drain' = [drain EXCEPT ![k].pc = "done"]
    /\ UNCHANGED <<ctxDone, channels, outs, take, closer, ordone, tee,
                   bridge, ortasks, orResult,
                   confine, repeat>>

DrainStep(k) == DrainRange(k) \/ DrainSelect(k) \/ DrainDone(k)

\* CloserWait returning while drains are still running.
CloserWaitEarly ==
    /\ closer.pc = "wait"
    /\ closer' = [closer EXCEPT !.pc = "close"]
    /\ UNCHANGED <<ctxDone, channels, outs, take, drain, wg, ordone, tee,
                   bridge, ortasks, orResult,
                   confine, repeat>>

\* wg.Wait()
CloserWait ==
    /\ closer.pc = "wait"
    /\ wg = 0
    /\ closer' = [closer EXCEPT !.pc = "close"]
    /\ UNCHANGED <<ctxDone, channels, outs, take, drain, wg, ordone, tee,
                   bridge, ortasks, orResult,
                   confine, repeat>>

\* close(multiplexed)
CloserClose ==
    /\ closer.pc = "close"
    /\ outs' = AfterClose("multiplexed")
    /\ closer' = [closer EXCEPT !.pc = "done"]
    /\ UNCHANGED <<ctxDone, channels, take, drain, wg, ordone, tee,
                   bridge, ortasks, orResult,
                   confine, repeat>>

CloserStep == CloserWait \/ CloserClose

\* FanIn(ctx, channels...) has returned: wg.Add(len(channels)), one drain per
\* channel and the closing goroutine started.
InitFanIn ==
    /\ ctxDone = FALSE
    /\ \E K \in 0..MaxK :
          /\ channels \in [1..K -> {NewChannel(s) : s \in SeqsUpTo(Values, MaxLen)}]
          /\ SumLen([k \in 1..K |-> channels[k].pending], K) <= MaxTotal
          /\ drain = [k \in 1..K |-> [pc |-> "range", val |-> Zero]]
          /\ wg = K
    /\ outs = [o \in {"multiplexed"} |-> NewOut]
    /\ closer = [pc |-> "wait"]
    /\ take = Idle /\ ordone = Idle /\ tee = Idle
    /\ bridge = Idle /\ ortasks = <<>> /\ orResult = 0
    /\ confine = Idle /\ repeat = Idle

NextFanIn ==
    \/ \E k \in 1..MaxK : DrainRange(k)
    \/ \E k \in 1..MaxK : DrainSelect(k)
    \/ \E k \in 1..MaxK : DrainDone(k)
    \/ CloserWait
    \/ CloserClose
    \/ \E k \in DOMAIN channels : EnvClose(k)
    \/ ConsumerStop("multiplexed")
    \/ Cancel

SpecFanIn == InitFanIn /\ [][NextFanIn]_vars

\* The scheduler runs every goroutine that can take a step.
FairSpecFanIn ==
    /\ SpecFanIn
    /\ \A k \in 1..MaxK : WF_vars(DrainStep(k))
    /\ WF_vars(CloserStep)

AllClosed == \A k \in DOMAIN channels : channels[k].closed

\* Once every input is closed, FanIn's output is eventually closed, unless the
\* consumer stops receiving.
FanInExhaustedCloses ==
    AllClosed ~> (Closed("multiplexed") \/ ~outs["multiplexed"].reading)

\* C3: FanIn's output is eventually closed once the context is cancelled, and
\* once every input is closed while the consumer keeps receiving.
FanInCloses ==
    /\ ctxDone ~> Closed("multiplexed")
    /\ FanInExhaustedCloses

\* C4: with the context never cancelled, once FanIn has closed its output the
\* values received are a merge of the inputs: every input's values in that
\* input's order, and every value as often as the inputs carry it.
FanInMerges ==
    (Closed("multiplexed") /\ ~ctxDone) =>
        LET K == Len(channels)
            ins == [k \in 1..K |-> Original(k)]
            got == outs["multiplexed"].recv
        IN /\ IsInterleaving(got, ins)
           /\ \A v \in Values : Count(got, v) = CountAll(ins, K, v)

\* C4's case: two inputs were merged, the later input's value first.
FanInMergesWitness ==
    /\ Closed("multiplexed") /\ ~ctxDone
    /\ Len(channels) = 2
    /\ Len(Original(1)) = 2 /\ Len(Original(2)) = 1
    /\ Original(1)[1] # Original(2)[1]
    /\ outs["multiplexed"].recv[2] = Original(2)[1]
    /\ Len(outs["multiplexed"].recv) = 3

(* -------------------------------- OrDone ------------------------------ *)

\* OrDone(ctx, c) has returned to `to`: its goroutine is at the outer select.
NewOrDone(c, to) == [pc |-> "select", c |-> c, v |-> Zero, to |-> to]

\* select { case <-ctx.Done(): return; case v, ok := <-c: if !ok { return } ...
OrDoneSelect ==
    /\ ordone.pc = "select"
    /\ \/ /\ ctxDone
          /\ ordone' = [ordone EXCEPT !.pc = "close"]
          /\ UNCHANGED channels
       \/ /\ CanRecv(ordone.c)
          /\ ordone' = IF RecvOk(ordone.c)
                       THEN [ordone EXCEPT !.pc = "send", !.v = RecvVal(ordone.c)]
                       ELSE [ordone EXCEPT !.pc = "close"]
          /\ channels' = AfterRecv(ordone.c)
    /\ UNCHANGED <<ctxDone, outs, take, drain, wg, closer, tee,
                   bridge, ortasks, orResult,
                   confine, repeat>>

\* OrDoneSend as a plain `values <- v`, outside any select.
OrDoneSendBlocking ==
    /\ ordone.pc = "send"
    /\ ordone.to = "caller"
    /\ CanSend("OrDone.values")
    /\ outs' = AfterSend("OrDone.values", ordone.v)
    /\ ordone' = [ordone EXCEPT !.pc = "select"]
    /\ UNCHANGED <<ctxDone, channels, take, drain, wg, closer, tee,
                   bridge, ortasks, orResult,
                   confine, repeat>>

\* select { case values <- v: case <-ctx.Done(): }, the values channel read by
\* the caller.  (Read by Tee or Bridge, the send is one step with their
\* receive: TeeRange, BridgeRange.)
OrDoneSend ==
    /\ ordone.pc = "send"
    /\ \/ /\ ordone.to = "caller"
          /\ CanSend("OrDone.values")
          /\ outs' = AfterSend("OrDone.values", ordone.v)
       \/ /\ ctxDone
          /\ UNCHANGED outs
    /\ ordone' = [ordone EXCEPT !.pc = "select"]
    /\ UNCHANGED <<ctxDone, channels, take, drain, wg, closer, tee,
                   bridge, ortasks, orResult,
                   confine, repeat>>

\* defer close(values)
OrDoneClose ==
    /\ ordone.pc = "close"
    /\ outs' = AfterClose("OrDone.values")
    /\ ordone' = [ordone EXCEPT !.pc = "done"]
    /\ UNCHANGED <<ctxDone, channels, take, drain, wg, closer, tee,
                   bridge, ortasks, orResult,
                   confine, repeat>>

OrDoneStep == OrDoneSelect \/ OrDoneSend \/ OrDoneClose

InitOrDone ==
    /\ ctxDone = FALSE
    /\ channels \in [{1} -> {NewChannel(s) : s \in SeqsUpTo(Values, MaxLen)}]
    /\ outs = [o \in {"OrDone.values"} |-> NewOut]
    /\ ordone = NewOrDone(1, "caller")
    /\ take = Idle /\ drain = Idle /\ wg = 0 /\ closer = Idle /\ tee = Idle
    /\ bridge = Idle /\ ortasks = <<>> /\ orResult = 0
    /\ confine = Idle /\ repeat = Idle

NextOrDone ==
    \/ OrDoneSelect
    \/ OrDoneSend
    \/ OrDoneClose
    \/ EnvClose(1)
    \/ ConsumerStop("OrDone.values")
    \/ Cancel

SpecOrDone == InitOrDone /\ [][NextOrDone]_vars

\* The scheduler runs a goroutine that can take a step.
FairSpecOrDone == SpecOrDone /\ WF_vars(OrDoneStep)

\* C5: once the context is cancelled, OrDone's output is eventually closed.
OrDoneCancelCloses == ctxDone ~> Closed("OrDone.values")

\* C5's case: the output was closed after cancellation although the input is
\* open with nothing to deliver, the consumer has stopped, and a value that had
\* been read was never accepted.
OrDoneCancelClosesWitness ==
    /\ ctxDone /\ Closed("OrDone.values")
    /\ ~channels[1].closed /\ channels[1].pending = <<>>
    /\ ~outs["OrDone.values"].reading
    /\ Len(channels[1].sent) = Len(outs["OrDone.values"].recv) + 1

(* --------------------------------- Tee -------------------------------- *)

\* The range expression OrDone(ctx, in) is evaluated, once.
TeeStart ==
    /\ tee.pc = "start"
    /\ ordone' = NewOrDone(1, "tee")
    /\ tee' = [tee EXCEPT !.pc = "range"]
    /\ UNCHANGED <<ctxDone, channels, outs, take, drain, wg, closer,
                   bridge, ortasks, orResult,
                   confine, repeat>>

\* for val := range OrDone(ctx, in) { var out1, out2 = left, right
TeeRange ==
    /\ tee.pc = "range"
    /\ \/ /\ ordone.pc = "send"
          /\ outs' = AfterSend("OrDone.values", ordone.v)
          /\ ordone' = [ordone EXCEPT !.pc = "select"]
          /\ tee' = [pc |-> "select", val |-> ordone.v, i |-> 0,
                     out1 |-> "left", out2 |-> "right"]
       \/ /\ Closed("OrDone.values")
          /\ tee' = [tee EXCEPT !.pc = "closeRight"]
          /\ UNCHANGED <<outs, ordone>>
    /\ UNCHANGED <<ctxDone, channels, take, drain, wg, closer,
                   bridge, ortasks, orResult,
                   confine, repeat>>

\* TeeSelect without `out1 = nil` and `out2 = nil`: an output that has accepted
\* the value is offered it again.
TeeSelectNoNil ==
    /\ tee.pc = "select"
    /\ LET next == IF tee.i + 1 < 2 THEN "select" ELSE "range"
       IN \/ /\ ctxDone
             /\ tee' = [tee EXCEPT !.i = @ + 1, !.pc = next]
             /\ UNCHANGED outs
          \/ /\ CanSend(tee.out1)
             /\ outs' = AfterSend(tee.out1, tee.val)
             /\ tee' = [tee EXCEPT !.i = @ + 1, !.pc = next]
          \/ /\ CanSend(tee.out2)
             /\ outs' = AfterSend(tee.out2, tee.val)
             /\ tee' = [tee EXCEPT !.i = @ + 1, !.pc = next]
    /\ UNCHANGED <<ctxDone, channels, take, drain, wg, closer, ordone,
                   bridge, ortasks, orResult,
                   confine, repeat>>

\* TeeSelect with the inner loop as `i < 1`: one select for each value.
TeeSelectOnce ==
    /\ tee.pc = "select"
    /\ LET next == IF tee.i + 1 < 1 THEN "select" ELSE "range"
       IN \/ /\ ctxDone
             /\ tee' = [tee EXCEPT !.i = @ + 1, !.pc = next]
             /\ UNCHANGED outs
          \/ /\ tee.out1 # "nil"
             /\ CanSend(tee.out1)
             /\ outs' = AfterSend(tee.out1, tee.val)
             /\ tee' = [tee EXCEPT !.i = @ + 1, !.pc = next, !.out1 = "nil"]
          \/ /\ tee.out2 # "nil"
             /\ CanSend(tee.out2)
             /\ outs' = AfterSend(tee.out2, tee.val)
             /\ tee' = [tee EXCEPT !.i = @ + 1, !.pc = next, !.out2 = "nil"]
    /\ UNCHANGED <<ctxDone, channels, take, drain, wg, closer, ordone,
                   bridge, ortasks, orResult,
                   confine, repeat>>

\* for i := 0; i < 2; i++ { select { case <-ctx.Done(): case out1 <- val:
\* out1 = nil; case out2 <- val: out2 = nil } }.  A send on a nil channel is
\* never ready.
TeeSelect ==
    /\ tee.pc = "select"
    /\ LET next == IF tee.i + 1 < 2 THEN "select" ELSE "range"
       IN \/ /\ ctxDone
             /\ tee' = [tee EXCEPT !.i = @ + 1, !.pc = next]
             /\ UNCHANGED outs
          \/ /\ tee.out1 # "nil"
             /\ CanSend(tee.out1)
             /\ outs' = AfterSend(tee.out1, tee.val)
             /\ tee' = [tee EXCEPT !.i = @ + 1, !.pc = next, !.out1 = "nil"]
          \/ /\ tee.out2 # "nil"
             /\ CanSend(tee.out2)
             /\ outs' = AfterSend(tee.out2, tee.val)
             /\ tee' = [tee EXCEPT !.i = @ + 1, !.pc = next, !.out2 = "nil"]
    /\ UNCHANGED <<ctxDone, channels, take, drain, wg, closer, ordone,
                   bridge, ortasks, orResult,
                   confine, repeat>>

\* TeeCloseRight with `defer close(right)` left out.
TeeCloseRightMissing ==
    /\ tee.pc = "closeRight"
    /\ tee' = [tee EXCEPT !.pc = "closeLeft"]
    /\ UNCHANGED <<ctxDone, channels, outs, take, drain, wg, closer, ordone,
                   bridge, ortasks, orResult,
                   confine, repeat>>

\* defer close(right): deferred last, run first.
TeeCloseRight ==
    /\ tee.pc = "closeRight"
    /\ outs' = AfterClose("right")
    /\ tee' = [tee EXCEPT !.pc = "closeLeft"]
    /\ UNCHANGED <<ctxDone, channels, take, drain, wg, closer, ordone,
                   bridge, ortasks, orResult,
                   confine, repeat>>

\* defer close(left)
TeeCloseLeft ==
    /\ tee.pc = "closeLeft"
    /\ outs' = AfterClose("left")
    /\ tee' = [tee EXCEPT !.pc = "done"]
    /\ UNCHANGED <<ctxDone, channels, take, drain, wg, closer, ordone,
                   bridge, ortasks, orResult,
                   confine, repeat>>

TeeStep == TeeStart \/ TeeRange \/ TeeSelect \/ TeeCloseRight \/ TeeCloseLeft

InitTee ==
    /\ ctxDone = FALSE
    /\ channels \in [{1} -> {NewChannel(s) : s \in SeqsUpTo(Values, MaxLen)}]
    /\ outs = [o \in {"left", "right", "OrDone.values"} |-> NewOut]
    /\ tee = [pc |-> "start", val |-> Zero, i |-> 0,
              out1 |-> "left", out2 |-> "right"]
    /\ ordone = Idle
    /\ take = Idle /\ drain = Idle /\ wg = 0 /\ closer = Idle
    /\ bridge = Idle /\ ortasks = <<>> /\ orResult = 0
    /\ confine = Idle /\ repeat = Idle

NextTee ==
    \/ TeeStart
    \/ TeeRange
    \/ TeeSelect
    \/ TeeCloseRight
    \/ TeeCloseLeft
    \/ OrDoneSelect
    \/ OrDoneSend
    \/ OrDoneClose
    \/ EnvClose(1)
    \/ ConsumerStop("left")
    \/ ConsumerStop("right")
    \/ Cancel

SpecTee == InitTee /\ [][NextTee]_vars

\* The scheduler runs every goroutine that can take a step.
FairSpecTee == SpecTee /\ WF_vars(TeeStep) /\ WF_vars(OrDoneStep)

\* C6: with the context never cancelled, each output has received a prefix of
\* what the input delivered, and once Tee has returned each output has
\* received exactly the input's values, in the input's order.
TeeDuplicates ==
    ~ctxDone =>
        /\ IsPrefix(outs["left"].recv, channels[1].sent)
        /\ IsPrefix(outs["right"].recv, channels[1].sent)
        /\ tee.pc = "done" =>
              /\ outs["left"].recv = Original(1)
              /\ outs["right"].recv = Original(1)
              /\ channels[1].pending = <<>>

\* C6's case: Tee has returned after two values, and on the way the right
\* output had accepted a value the left one had not yet.
TeeDuplicatesWitness ==
    /\ ~ctxDone /\ tee.pc = "done"
    /\ Len(Original(1)) = 2
    /\ Original(1)[1] # Original(1)[2]
    /\ outs["left"].recv = Original(1)

\* Neither output is closed twice or sent to after its close.
TeeClosesOnce ==
    /\ outs["left"].closes <= 1 /\ ~outs["left"].misuse
    /\ outs["right"].closes <= 1 /\ ~outs["right"].misuse

\* C7: both outputs are closed, once each: eventually after the context is
\* cancelled, and eventually after the input is closed while both consumers
\* keep receiving; neither is ever closed a second time.
TeeClosesBoth ==
    /\ []TeeClosesOnce
    /\ ctxDone ~> (outs["left"].closes = 1 /\ outs["right"].closes = 1)
    /\ channels[1].closed ~>
          \/ outs["left"].closes = 1 /\ outs["right"].closes = 1
          \/ ~outs["left"].reading
          \/ ~outs["right"].reading

\* C7's case: both outputs closed after cancellation, both consumers gone, the
\* left output one value ahead of the right one.
TeeClosesBothWitness ==
    /\ ctxDone
    /\ outs["left"].closes = 1 /\ outs["right"].closes = 1
    /\ ~outs["left"].reading /\ ~outs["right"].reading
    /\ Len(outs["left"].recv) = Len(outs["right"].recv) + 1

(* -------------------------------- Bridge ------------------------------ *)

\* The outer channel, streams; the inner channels it delivers are 1, 2, ...
Streams == 0

\* BridgeSelect as a plain receive from streams, without the ctx.Done() case.
BridgeSelectNoCancel ==
    /\ bridge.pc = "select"
    /\ CanRecv(Streams)
    /\ channels' = AfterRecv(Streams)
    /\ IF RecvOk(Streams)
       THEN /\ bridge' = [bridge EXCEPT !.pc = "range",
                                        !.stream = RecvVal(Streams)]
            /\ ordone' = NewOrDone(RecvVal(Streams), "bridge")
            /\ outs' = [outs EXCEPT !["OrDone.values"] = NewOut]
       ELSE /\ bridge' = [bridge EXCEPT !.pc = "close"]
            /\ UNCHANGED <<ordone, outs>>
    /\ UNCHANGED <<ctxDone, take, drain, wg, closer, tee, ortasks, orResult,
                   confine, repeat>>

\* select { case maybe, ok := <-streams: if !ok { return }; stream = maybe
\* case <-ctx.Done(): return }, then the range expression OrDone(ctx, stream).
BridgeSelect ==
    /\ bridge.pc = "select"
    /\ \/ /\ CanRecv(Streams)
          /\ channels' = AfterRecv(Streams)
          /\ IF RecvOk(Streams)
             THEN /\ bridge' = [bridge EXCEPT !.pc = "range",
                                              !.stream = RecvVal(Streams)]
                  /\ ordone' = NewOrDone(RecvVal(Streams), "bridge")
                  /\ outs' = [outs EXCEPT !["OrDone.values"] = NewOut]
             ELSE /\ bridge' = [bridge EXCEPT !.pc = "close"]
                  /\ UNCHANGED <<ordone, outs>>
       \/ /\ ctxDone
          /\ bridge' = [bridge EXCEPT !.pc = "close"]
          /\ UNCHANGED <<channels, ordone, outs>>
    /\ UNCHANGED <<ctxDone, take, drain, wg, closer, tee, ortasks, orResult,
                   confine, repeat>>

\* BridgeRange leaving the loop over an inner channel after its first value.
BridgeRangeFirstOnly ==
    /\ bridge.pc = "range"
    /\ \/ /\ ordone.pc = "send"
          /\ outs' = AfterSend("OrDone.values", ordone.v)
          /\ ordone' = [ordone EXCEPT !.pc = "select"]
          /\ bridge' = [bridge EXCEPT !.pc = "send", !.val = ordone.v]
       \/ /\ Closed("OrDone.values") \/ outs["OrDone.values"].recv # <<>>
          /\ bridge' = [bridge EXCEPT !.pc = "select"]
          /\ UNCHANGED <<outs, ordone>>
    /\ UNCHANGED <<ctxDone, channels, take, drain, wg, closer, tee,
                   ortasks, orResult,
                   confine, repeat>>

\* for val := range OrDone(ctx, stream)
BridgeRange ==
    /\ bridge.pc = "range"
    /\ \/ /\ ordone.pc = "send"
          /\ outs' = AfterSend("OrDone.values", ordone.v)
          /\ ordone' = [ordone EXCEPT !.pc = "select"]
          /\ bridge' = [bridge EXCEPT !.pc = "send", !.val = ordone.v]
       \/ /\ Closed("OrDone.values")
          /\ bridge' = [bridge EXCEPT !.pc = "select"]
          /\ UNCHANGED <<outs, ordone>>
    /\ UNCHANGED <<ctxDone, channels, take, drain, wg, closer, tee,
                   ortasks, orResult,
                   confine, repeat>>

\* select { case values <- val: case <-ctx.Done(): }
BridgeSend ==
    /\ bridge.pc = "send"
    /\ \/ /\ CanSend("Bridge.values")
          /\ outs' = AfterSend("Bridge.values", bridge.val)
       \/ /\ ctxDone
          /\ UNCHANGED outs
    /\ bridge' = [bridge EXCEPT !.pc = "range"]
    /\ UNCHANGED <<ctxDone, channels, take, drain, wg, closer, ordone, tee,
                   ortasks, orResult,
                   confine, repeat>>

\* defer close(values)
BridgeClose ==
    /\ bridge.pc = "close"
    /\ outs' = AfterClose("Bridge.values")
    /\ bridge' = [bridge EXCEPT !.pc = "done"]
    /\ UNCHANGED <<ctxDone, channels, take, drain, wg, closer, ordone, tee,
                   ortasks, orResult,
                   confine, repeat>>

\* The producer of inner channel k closes it.  Only the OrDone goroutine
\* started for k ever receives from k, so a close at any other time shows as
\* one at the start of that goroutine's life, or not at all.
InnerClose(k) ==
    /\ bridge.stream = k
    /\ ordone.pc \in {"select", "send"}
    /\ EnvClose(k)

BridgeStep == BridgeSelect \/ BridgeRange \/ BridgeSend \/ BridgeClose

\* Bridge(ctx, streams) has returned.  The producer of streams will deliver
\* the inner channels 1..K, one after another, each with values of its own,
\* drawn from V.
InitBridgeOver(V) ==
    /\ ctxDone = FALSE
    /\ \E K \in 0..MaxStreams :
          /\ channels \in [0..K -> {NewChannel(s) : s \in SeqsUpTo(V, MaxLen)}
                                      \cup {NewChannel([k \in 1..K |-> k])}]
          /\ channels[Streams] = NewChannel([k \in 1..K |-> k])
          /\ \A k \in 1..K : channels[k].pending \in SeqsUpTo(V, MaxLen)
          /\ SumLen([k \in 1..K |-> channels[k].pending], K) <= MaxTotal
    /\ outs = [o \in {"Bridge.values", "OrDone.values"} |-> NewOut]
    /\ bridge = [pc |-> "select", stream |-> 0, val |-> Zero]
    /\ ordone = Idle
    /\ take = Idle /\ drain = Idle /\ wg = 0 /\ closer = Idle /\ tee = Idle
    /\ ortasks = <<>> /\ orResult = 0
    /\ confine = Idle /\ repeat = Idle

InitBridge == InitBridgeOver(Values)

\* Bridge under a context nobody cancels.  (OrDone's inner select then has
\* one way out, the send, which is BridgeRange's receive.)
NextBridge ==
    \/ BridgeSelect
    \/ BridgeRange
    \/ BridgeSend
    \/ BridgeClose
    \/ OrDoneSelect
    \/ OrDoneClose
    \/ EnvClose(Streams)
    \/ \E k \in 1..MaxStreams : InnerClose(k)
    \/ ConsumerStop("Bridge.values")

SpecBridge == InitBridge /\ [][NextBridge]_vars

\* Bridge under a context that may be cancelled.  Bridge and OrDone never look
\* at a value (T is any type), and whether they return does not depend on
\* which values they were forwarding: the inner channels here differ in
\* length only.
InitBridgeCancel == InitBridgeOver({1})

NextBridgeCancel ==
    \/ NextBridge
    \/ OrDoneSend
    \/ Cancel

SpecBridgeCancel == InitBridgeCancel /\ [][NextBridgeCancel]_vars

\* The scheduler runs every goroutine that can take a step.
FairSpecBridgeCancel ==
    SpecBridgeCancel /\ WF_vars(BridgeStep) /\ WF_vars(OrDoneStep)

\* The inner channels' values, one channel after another.
Flattened ==
    LET K == Len(Original(Streams))
    IN Concat([k \in 1..K |-> Original(k)], K)

\* C8: with the context never cancelled, the output has at all times received a
\* prefix of the inner channels' values laid end to end, and once it is closed
\* it has received all of them.
BridgeFlattens ==
    /\ ~ctxDone
    /\ IsPrefix(outs["Bridge.values"].recv, Flattened)
    /\ Closed("Bridge.values") => outs["Bridge.values"].recv = Flattened

\* C8's case: the output is closed after two inner channels, the first with
\* two values, were flattened.
BridgeFlattensWitness ==
    /\ ~ctxDone /\ Closed("Bridge.values")
    /\ Len(Original(Streams)) = 2
    /\ Len(Original(1)) = 2 /\ Len(Original(2)) = 1
    /\ Original(1)[2] # Original(2)[1]
    /\ Len(outs["Bridge.values"].recv) = 3

\* C9: once the context is cancelled, Bridge's output is eventually closed and
\* the OrDone goroutine it started, if any, eventually returns.
BridgeCancelCloses ==
    ctxDone ~> (Closed("Bridge.values") /\ ordone.pc \in {"idle", "done"})

\* C9's case: the output was closed after cancellation with the outer channel
\* still open, an inner channel partly drained and still open, the consumer
\* gone and the OrDone goroutine returned.
BridgeCancelClosesWitness ==
    /\ ctxDone /\ Closed("Bridge.values") /\ ordone.pc = "done"
    /\ ~channels[Streams].closed
    /\ ~channels[1].closed /\ channels[1].sent # <<>> /\ channels[1].pending # <<>>
    /\ ~outs["Bridge.values"].reading

(* ---------------------------------- Or -------------------------------- *)

\* The nil channel: Or's result for no channels at all.
Nil == 0

\* Channels 1..Len(channels) are the caller's; the orDone channel of the t-th
\* goroutine Or starts is Len(channels) + t, an entry of outs.
IsInput(c) == c \in DOMAIN channels

\* OrCall without case 1: a single channel gets a goroutine and an orDone
\* channel like any other.
OrCallNoCaseOne(chs, tasks) ==
    IF Len(chs) = 0 THEN [result |-> Nil, tasks |-> tasks]
    ELSE LET orDone == Len(channels) + Len(tasks) + 1
         IN [result |-> orDone,
             tasks |-> Append(tasks, [channels |-> chs, orDone |-> orDone,
                                      pc |-> "start", watch |-> <<>>])]

\* Or(chs...), called with `tasks` goroutines already started: its result, and
\* the goroutines after the call.  Up to one channel, none is started.
OrCall(chs, tasks) ==
    IF Len(chs) = 0 THEN [result |-> Nil, tasks |-> tasks]
    ELSE IF Len(chs) = 1 THEN [result |-> chs[1], tasks |-> tasks]
    ELSE LET orDone == Len(channels) + Len(tasks) + 1
         IN [result |-> orDone,
             tasks |-> Append(tasks, [channels |-> chs, orDone |-> orDone,
                                      pc |-> "start", watch |-> <<>>])]

\* OrOperands without the recursive call: with more than two channels the
\* select receives from the first three only.
OrOperandsFirstThree(t) ==
    LET chs == ortasks[t].channels
    IN IF Len(chs) = 2
       THEN [watch |-> chs, tasks |-> ortasks]
       ELSE [watch |-> <<chs[1], chs[2], chs[3]>>, tasks |-> ortasks]

\* OrOperands with the recursive call as Or(channels[3:]...): the goroutine's
\* own orDone is not handed down.
OrOperandsNoOrDone(t) ==
    LET chs == ortasks[t].channels
    IN IF Len(chs) = 2
       THEN [watch |-> chs, tasks |-> ortasks]
       ELSE LET rec == OrCall(SubSeq(chs, 4, Len(chs)), ortasks)
            IN [watch |-> <<chs[1], chs[2], chs[3], rec.result>>,
                tasks |-> rec.tasks]

\* The channels the goroutine's select receives from, and the goroutines after
\* the select's operands are evaluated: with two channels, these two; with
\* more, the first three and Or(append(channels[3:], orDone)...).
OrOperands(t) ==
    LET chs == ortasks[t].channels
    IN IF Len(chs) = 2
       THEN [watch |-> chs, tasks |-> ortasks]
       ELSE LET rec == OrCall(Append(SubSeq(chs, 4, Len(chs)), ortasks[t].orDone),
                              ortasks)
            IN [watch |-> <<chs[1], chs[2], chs[3], rec.result>>,
                tasks |-> rec.tasks]

\* `outs` with a fresh entry for the orDone channel of every goroutine of tasks.
WithOrDone(tasks) ==
    [c \in DOMAIN outs \cup {tasks[t].orDone : t \in DOMAIN tasks} |->
        IF c \in DOMAIN outs THEN outs[c] ELSE NewOut]

\* A receive from c can complete.  Nothing is ever sent on an orDone channel,
\* and nothing is ever received from the nil channel.
OrReady(c) ==
    IF IsInput(c) THEN CanRecv(c)
    ELSE c \in DOMAIN outs /\ outs[c].closes > 0

\* The goroutine enters its select: the operands are evaluated.
OrEnter(t) ==
    /\ t \in DOMAIN ortasks
    /\ ortasks[t].pc = "start"
    /\ LET ops == OrOperands(t)
       IN /\ ortasks' = [ops.tasks EXCEPT ![t].pc = "select",
                                          ![t].watch = ops.watch]
          /\ outs' = WithOrDone(ops.tasks)
    /\ UNCHANGED <<ctxDone, channels, take, drain, wg, closer, ordone, tee,
                   bridge, orResult,
                   confine, repeat>>

\* OrSelect with a default case added to the select: it may complete with no
\* channel ready.
OrSelectDefault(t) ==
    /\ t \in DOMAIN ortasks
    /\ ortasks[t].pc = "select"
    /\ ortasks' = [ortasks EXCEPT ![t].pc = "close"]
    /\ UNCHANGED <<ctxDone, channels, outs, take, drain, wg, closer, ordone,
                   tee, bridge, orResult, confine, repeat>>

\* One of the select's receives completes: a value, or a closed channel.
OrSelect(t) ==
    /\ t \in DOMAIN ortasks
    /\ ortasks[t].pc = "select"
    /\ \E j \in DOMAIN ortasks[t].watch :
          LET c == ortasks[t].watch[j]
          IN /\ OrReady(c)
             /\ channels' = IF IsInput(c) THEN AfterRecv(c) ELSE channels
    /\ ortasks' = [ortasks EXCEPT ![t].pc = "close"]
    /\ UNCHANGED <<ctxDone, outs, take, drain, wg, closer, ordone, tee,
                   bridge, orResult,
                   confine, repeat>>

\* defer close(orDone)
OrClose(t) ==
    /\ t \in DOMAIN ortasks
    /\ ortasks[t].pc = "close"
    /\ outs' = AfterClose(ortasks[t].orDone)
    /\ ortasks' = [ortasks EXCEPT ![t].pc = "done"]
    /\ UNCHANGED <<ctxDone, channels, take, drain, wg, closer, ordone, tee,
                   bridge, orResult,
                   confine, repeat>>

OrStep(t) == OrEnter(t) \/ OrSelect(t) \/ OrClose(t)

\* Or starts one goroutine for every two channels it is handed, at most.
MaxTasks == MaxN \div 2

\* Or(channels...) has returned orResult.  Each channel's producer has one
\* value to send or none, and may close the channel at any time after.
InitOr ==
    /\ ctxDone = FALSE
    /\ \E n \in 0..MaxN :
          channels \in [1..n -> {NewChannel(<<>>), NewChannel(<<1>>)}]
    /\ LET rec == OrCall([c \in 1..Len(channels) |-> c], <<>>)
       IN /\ orResult = rec.result
          /\ ortasks = rec.tasks
          /\ outs = [c \in {rec.tasks[t].orDone : t \in DOMAIN rec.tasks} |-> NewOut]
    /\ take = Idle /\ drain = Idle /\ wg = 0 /\ closer = Idle /\ ordone = Idle
    /\ tee = Idle /\ bridge = Idle
    /\ confine = Idle /\ repeat = Idle

NextOr ==
    \/ \E t \in 1..MaxTasks : OrEnter(t)
    \/ \E t \in 1..MaxTasks : OrSelect(t)
    \/ \E t \in 1..MaxTasks : OrClose(t)
    \/ \E c \in DOMAIN channels : EnvClose(c)

SpecOr == InitOr /\ [][NextOr]_vars

\* The scheduler runs every goroutine that can take a step.
FairSpecOr == SpecOr /\ \A t \in 1..MaxTasks : WF_vars(OrStep(t))

\* Channel c has closed or delivered a value.
Resolved(c) == channels[c].closed \/ channels[c].sent # <<>>

\* The channel Or returned is closed.
OrResultClosed == orResult \in DOMAIN outs /\ Closed(orResult)

\* C10: handed two channels or more, once any of them has closed or delivered
\* a value the channel Or returned is eventually closed.
OrCloses ==
    \A i \in 1..MaxN :
        (Len(channels) >= 2 /\ i <= Len(channels) /\ Resolved(i))
            ~> OrResultClosed

\* C10's case: the channel Or returned is closed and the only channel that
\* has closed or delivered a value is the last of five, which only the
\* goroutine of a nested Or receives from.
OrClosesWitness ==
    /\ Len(channels) = 5
    /\ OrResultClosed
    /\ \A i \in 1..Len(channels) : Resolved(i) <=> i = 5

\* C11: handed two channels or more, the channel Or returned is closed only
\* once one of them has closed or delivered a value; nothing is ever sent on a
\* channel Or made, and none of them is closed twice.
OrClosesOnlyOnResolve ==
    /\ \A c \in DOMAIN outs :
          outs[c].closes <= 1 /\ ~outs[c].misuse /\ outs[c].recv = <<>>
    /\ (Len(channels) >= 2 /\ OrResultClosed)
          => \E i \in 1..Len(channels) : Resolved(i)

\* C11's case: the channel Or returned for four channels is closed, and all
\* that happened is that the fourth delivered a value, to a nested Or.
OrClosesOnlyOnResolveWitness ==
    /\ Len(channels) = 4
    /\ OrResultClosed
    /\ \A i \in 1..4 : ~channels[i].closed
    /\ \A i \in 1..4 : channels[i].sent # <<>> <=> i = 4

(* ------------------------------- Confine ------------------------------ *)

\* The example's add.
add(a, b) == a + b

\* What the functions of the example return: add(2, 3), add(4, 5), add(6, 7).
ExampleFns == <<add(2, 3), add(4, 5), add(6, 7)>>

\* results := make(chan T, len(fns)): the capacity of results.
ConfineCapUnbuffered(fns) == 0

ConfineCap(fns) == Len(fns)

\* A buffered channel Confine returns: buf is what has been sent and not yet
\* received.
NewBuffered(cap) ==
    [recv |-> <<>>, closes |-> 0, reading |-> TRUE, misuse |-> FALSE,
     buf |-> <<>>, cap |-> cap]

\* A send on o can complete: the buffer has room, or it is empty and the
\* consumer is receiving.  (A send on a closed channel panics.)
CanSendBuffered(o) ==
    \/ Len(outs[o].buf) < outs[o].cap
    \/ outs[o].buf = <<>> /\ outs[o].reading
    \/ outs[o].closes > 0

\* `outs` after `o <- v`.
AfterSendBuffered(o, v) ==
    IF outs[o].closes > 0
    THEN [outs EXCEPT ![o].misuse = TRUE]
    ELSE IF Len(outs[o].buf) < outs[o].cap
    THEN [outs EXCEPT ![o].buf = Append(@, v)]
    ELSE [outs EXCEPT ![o].recv = Append(@, v)]

\* The consumer receives the oldest buffered value; a closed channel still
\* yields what is buffered.
ConsumerRecv(o) ==
    /\ outs[o].reading
    /\ outs[o].buf # <<>>
    /\ outs' = [outs EXCEPT ![o].recv = Append(@, Head(outs[o].buf)),
                            ![o].buf = Tail(@)]
    /\ UNCHANGED <<ctxDone, channels, take, drain, wg, closer, ordone, tee,
                   bridge, ortasks, orResult, confine, repeat>>

\* ConfineCall ranging over the functions in no fixed order, as over a map.
ConfineCallAnyOrder ==
    /\ confine.pc = "for"
    /\ IF confine.k <= Len(confine.fns)
       THEN \E j \in 1..Len(confine.fns) :
               confine' = [confine EXCEPT !.pc = "do", !.cur = j,
                              !.executing = @ \cup {j},
                              !.log = Append(@, <<"call", j>>)]
       ELSE confine' = [confine EXCEPT !.pc = "close"]
    /\ UNCHANGED <<ctxDone, channels, outs, take, drain, wg, closer, ordone,
                   tee, bridge, ortasks, orResult, repeat>>

\* for _, do := range fns { ... do() ...: the next function is called.
ConfineCall ==
    /\ confine.pc = "for"
    /\ IF confine.k <= Len(confine.fns)
       THEN confine' = [confine EXCEPT !.pc = "do", !.cur = confine.k,
                           !.executing = @ \cup {confine.k},
                           !.log = Append(@, <<"call", confine.k>>)]
       ELSE confine' = [confine EXCEPT !.pc = "close"]
    /\ UNCHANGED <<ctxDone, channels, outs, take, drain, wg, closer, ordone,
                   tee, bridge, ortasks, orResult, repeat>>

\* do() returns.
ConfineReturn ==
    /\ confine.pc = "do"
    /\ confine' = [confine EXCEPT !.pc = "send",
                      !.v = confine.fns[confine.cur],
                      !.executing = @ \ {confine.cur},
                      !.log = Append(@, <<"return", confine.cur>>)]
    /\ UNCHANGED <<ctxDone, channels, outs, take, drain, wg, closer, ordone,
                   tee, bridge, ortasks, orResult, repeat>>

\* results <- (what do() returned)
ConfineSend ==
    /\ confine.pc = "send"
    /\ CanSendBuffered("results")
    /\ outs' = AfterSendBuffered("results", confine.v)
    /\ confine' = [confine EXCEPT !.pc = "for", !.k = @ + 1]
    /\ UNCHANGED <<ctxDone, channels, take, drain, wg, closer, ordone,
                   tee, bridge, ortasks, orResult, repeat>>

\* defer close(results)
ConfineClose ==
    /\ confine.pc = "close"
    /\ outs' = AfterClose("results")
    /\ confine' = [confine EXCEPT !.pc = "done"]
    /\ UNCHANGED <<ctxDone, channels, take, drain, wg, closer, ordone,
                   tee, bridge, ortasks, orResult, repeat>>

ConfineStep == ConfineCall \/ ConfineReturn \/ ConfineSend \/ ConfineClose

\* Confine(fns...) has returned.  A function is what it returns.
InitConfine ==
    /\ ctxDone = FALSE
    /\ channels = <<>>
    /\ \E fns \in SeqsUpTo(Values, MaxFns) \cup {ExampleFns} :
          /\ confine = [pc |-> "for", fns |-> fns, k |-> 1, cur |-> 0,
                        v |-> Zero, executing |-> {}, log |-> <<>>]
          /\ outs = [o \in {"results"} |-> NewBuffered(ConfineCap(fns))]
    /\ take = Idle /\ drain = Idle /\ wg = 0 /\ closer = Idle /\ ordone = Idle
    /\ tee = Idle /\ bridge = Idle /\ ortasks = <<>> /\ orResult = 0
    /\ repeat = Idle

NextConfine ==
    \/ ConfineCall
    \/ ConfineReturn
    \/ ConfineSend
    \/ ConfineClose
    \/ ConsumerRecv("results")
    \/ ConsumerStop("results")

SpecConfine == InitConfine /\ [][NextConfine]_vars

\* The scheduler runs a goroutine that can take a step; a function that was
\* called returns.
FairSpecConfine == SpecConfine /\ WF_vars(ConfineStep)

\* Calls and returns when the first n functions run one after another.
RECURSIVE InTurn(_)
InTurn(n) ==
    IF n = 0 THEN <<>>
    ELSE InTurn(n - 1) \o << <<"call", n>>, <<"return", n>> >>

\* Everything sent on results so far, received or still buffered.
Written == outs["results"].recv \o outs["results"].buf

\* C12: the functions are called one after another in the order supplied, no
\* call before the previous function has returned; the results are written
\* in that order, and results is closed only after the last of them.
ConfineSequential ==
    /\ Cardinality(confine.executing) <= 1
    /\ IsPrefix(confine.log, InTurn(Len(confine.fns)))
    /\ IsPrefix(Written, confine.fns)
    /\ IsPrefix(outs["results"].recv, confine.fns)
    /\ Closed("results") => Written = confine.fns
    /\ ~outs["results"].misuse

\* C12's case: the example's three functions have run and the consumer has
\* received 5, 9, 13 from the closed channel.
ConfineSequentialWitness ==
    /\ confine.fns = ExampleFns
    /\ Closed("results")
    /\ outs["results"].recv = <<5, 9, 13>>
    /\ confine.log = InTurn(3)

\* C20: whatever the consumer does, reading or never reading, a result that
\* is about to be written finds room in the buffer, the buffer never holds
\* more results than there are functions, and the task eventually has written
\* every result and closed results.
ConfineNeverBlocks ==
    /\ [](confine.pc = "send" =>
             Len(outs["results"].buf) < outs["results"].cap)
    /\ [](Len(outs["results"].buf) <= Len(confine.fns))
    /\ <>(Closed("results") /\ Written = confine.fns
             /\ confine.pc = "done")

\* C20's case: three functions, a consumer that never received, and results
\* closed with all three results buffered.
ConfineNeverBlocksWitness ==
    /\ Len(confine.fns) = 3
    /\ outs["results"].recv = <<>>
    /\ ~outs["results"].reading
    /\ outs["results"].buf = confine.fns
    /\ Closed("results")

(* ------------------------------- Repeat ------------------------------- *)

\* The values the pipeline example hands to Repeat.
ExampleSeed == <<1, 2, 3>>

\* Repeat(ctx, values...) has returned: its goroutine is about to enter the
\* loops.  `to` names who receives from stream.
NewRepeat(values, to) ==
    [pc |-> "for", values |-> values, i |-> 0, to |-> to]

\* RepeatNext without the enclosing for { }: one pass over values.
RepeatNextOnce(r) ==
    IF r.i < Len(r.values)
    THEN [r EXCEPT !.i = @ + 1]
    ELSE [r EXCEPT !.pc = "close"]

\* Repeat's goroutine after stream <- v was taken: on to the next value of the
\* range, or back to the enclosing for { } after the last one.
RepeatNext(r) ==
    IF r.i < Len(r.values)
    THEN [r EXCEPT !.i = @ + 1]
    ELSE [r EXCEPT !.pc = "for"]

\* The consumer of o is ready to receive one more value.
Receiving(o) == outs[o].reading /\ Len(outs[o].recv) < MaxTake

\* for { for _, v := range values {: (re)starts the range; over no values at
\* all the outer loop spins.
RepeatFor ==
    /\ repeat.pc = "for"
    /\ repeat' = IF repeat.values = <<>> THEN repeat
                 ELSE [repeat EXCEPT !.pc = "select", !.i = 1]
    /\ UNCHANGED <<ctxDone, channels, outs, take, drain, wg, closer, ordone,
                   tee, bridge, ortasks, orResult, confine>>

\* RepeatSelect without the case <-ctx.Done().
RepeatSelectNoCancel ==
    /\ repeat.pc = "select"
    /\ repeat.to = "caller"
    /\ Receiving("stream")
    /\ outs' = AfterSend("stream", repeat.values[repeat.i])
    /\ repeat' = RepeatNext(repeat)
    /\ UNCHANGED <<ctxDone, channels, take, drain, wg, closer, ordone,
                   tee, bridge, ortasks, orResult, confine>>

\* select { case <-ctx.Done(): return; case stream <- v: }  The select takes
\* any one of the cases that are ready.
RepeatSelect ==
    /\ repeat.pc = "select"
    /\ \/ /\ ctxDone
          /\ repeat' = [repeat EXCEPT !.pc = "close"]
          /\ UNCHANGED outs
       \/ /\ repeat.to = "caller"
          /\ Receiving("stream")
          /\ outs' = AfterSend("stream", repeat.values[repeat.i])
          /\ repeat' = RepeatNext(repeat)
    /\ UNCHANGED <<ctxDone, channels, take, drain, wg, closer, ordone,
                   tee, bridge, ortasks, orResult, confine>>

\* defer close(stream)
RepeatClose ==
    /\ repeat.pc = "close"
    /\ outs' = AfterClose("stream")
    /\ repeat' = [repeat EXCEPT !.pc = "done"]
    /\ UNCHANGED <<ctxDone, channels, take, drain, wg, closer, ordone,
                   tee, bridge, ortasks, orResult, confine>>

RepeatStep == RepeatFor \/ RepeatSelect \/ RepeatClose

Seeds == SeqsUpTo(Values, MaxLen) \cup {ExampleSeed}

InitRepeat ==
    /\ ctxDone = FALSE
    /\ channels = <<>>
    /\ outs = [o \in {"stream"} |-> NewOut]
    /\ repeat \in {NewRepeat(s, "caller") : s \in Seeds}
    /\ take = Idle /\ drain = Idle /\ wg = 0 /\ closer = Idle /\ ordone = Idle
    /\ tee = Idle /\ bridge = Idle /\ ortasks = <<>> /\ orResult = 0
    /\ confine = Idle

NextRepeat ==
    \/ RepeatFor
    \/ RepeatSelect
    \/ RepeatClose
    \/ ConsumerStop("stream")
    \/ Cancel

SpecRepeat == InitRepeat /\ [][NextRepeat]_vars

\* The scheduler runs a goroutine that can take a step.
FairSpecRepeat == SpecRepeat /\ WF_vars(RepeatStep)

(* ------------------------- Take(ctx, Repeat(ctx, ...), num) ----------- *)

\* Take's <-stream on the stream Repeat returned: it meets Repeat's
\* stream <- v, or yields the zero value once stream is closed.
TakeRecvStream ==
    /\ take.pc = "recv"
    /\ \/ /\ repeat.pc = "select"
          /\ take' = [take EXCEPT !.pc = "select",
                                  !.v = repeat.values[repeat.i]]
          /\ outs' = AfterSend("stream", repeat.values[repeat.i])
          /\ repeat' = RepeatNext(repeat)
       \/ /\ Closed("stream")
          /\ take' = [take EXCEPT !.pc = "select", !.v = Zero]
          /\ UNCHANGED <<outs, repeat>>
    /\ UNCHANGED <<ctxDone, channels, drain, wg, closer, ordone,
                   tee, bridge, ortasks, orResult, confine>>

InitPipeline ==
    /\ ctxDone = FALSE
    /\ channels = <<>>
    /\ outs = [o \in {"stream", "taken"} |-> NewOut]
    /\ repeat \in {NewRepeat(s, "take") : s \in Seeds}
    /\ take \in {[pc |-> "for", i |-> 0, num |-> n, v |-> Zero] :
                    n \in 0..MaxTake}
    /\ drain = Idle /\ wg = 0 /\ closer = Idle /\ ordone = Idle
    /\ tee = Idle /\ bridge = Idle /\ ortasks = <<>> /\ orResult = 0
    /\ confine = Idle

NextPipeline ==
    \/ RepeatFor
    \/ RepeatSelect
    \/ RepeatClose
    \/ TakeFor
    \/ TakeRecvStream
    \/ TakeSelect
    \/ TakeClose
    \/ ConsumerStop("taken")
    \/ Cancel

SpecPipeline == InitPipeline /\ [][NextPipeline]_vars

\* The k-th value (k = 1, 2, ...) of the endless repetition of values.
Cycle(values, k) == values[((k - 1) % Len(values)) + 1]

\* C13: the values Repeat delivers from a non-empty seed are the seed over and
\* over, the k-th being values[k mod m]; with no cancellation Take forwards
\* them in that order and, once it has returned, has delivered exactly the
\* first num of them on its closed output.
RepeatCycles ==
    repeat.values # <<>> =>
       /\ \A k \in 1..Len(outs["stream"].recv) :
             outs["stream"].recv[k] = Cycle(repeat.values, k)
       /\ ~ctxDone =>
             /\ IsPrefix(outs["taken"].recv, outs["stream"].recv)
             /\ Len(outs["stream"].recv) <= take.num
             /\ ~Closed("stream")
             /\ take.pc = "done" =>
                   /\ Len(outs["taken"].recv) = take.num
                   /\ outs["taken"].closes = 1

\* C13's case: Take(ctx, Repeat(ctx, 1, 2, 3), 7) has returned without
\* cancellation, having delivered 1,2,3,1,2,3,1.
RepeatCyclesWitness ==
    /\ repeat.values = <<1, 2, 3>>
    /\ take.num = 7
    /\ take.pc = "done"
    /\ ~ctxDone
    /\ outs["taken"].recv = <<1, 2, 3, 1, 2, 3, 1>>
    /\ Closed("taken")

\* C14 as stated: once the context is cancelled, Repeat delivers no further
\* value.
RepeatStopsAtCancel ==
    [][ctxDone => outs'["stream"].recv = outs["stream"].recv]_vars

\* C14, amended: stream is closed only after cancellation, and nothing is
\* delivered once the goroutine has taken the cancellation case; with a
\* non-empty seed, once the context is cancelled and no consumer is ready to
\* receive, the write attempt aborts and stream is eventually closed.
RepeatCancelCloses ==
    /\ [](Closed("stream") => ctxDone /\ repeat.pc = "done")
    /\ [][repeat.pc \in {"close", "done"} =>
             outs'["stream"].recv = outs["stream"].recv]_vars
    /\ (repeat.values # <<>> /\ ctxDone /\ ~Receiving("stream"))
          ~> (Closed("stream") /\ ~outs["stream"].misuse)

\* C14's case: values were delivered, the consumer stopped, the context was
\* cancelled, and stream is closed.
RepeatCancelClosesWitness ==
    /\ repeat.values # <<>>
    /\ outs["stream"].recv # <<>>
    /\ ~outs["stream"].reading
    /\ ctxDone
    /\ Closed("stream")

(* ---------------------------- Or, continued --------------------------- *)

\* C15: handed no channel, Or returns nil and starts no goroutine; handed one,
\* it returns that very channel, starts no goroutine, makes no channel and
\* receives nothing from the one it was handed.
OrFewInputs ==
    /\ Len(channels) = 0 =>
          orResult = Nil /\ ortasks = <<>> /\ DOMAIN outs = {}
    /\ Len(channels) = 1 =>
          /\ orResult = 1 /\ IsInput(orResult)
          /\ ortasks = <<>> /\ DOMAIN outs = {}
          /\ channels[1].sent = <<>>

\* C15's case: the one channel handed to Or has been closed by its producer;
\* it is what Or returned, so what Or returned is closed.
OrFewInputsWitness ==
    /\ Len(channels) = 1
    /\ orResult = 1
    /\ channels[orResult].closed
    /\ ortasks = <<>>

(* --------------------------- FanIn, continued ------------------------- *)

\* The drains that have not exited.
Running == {k \in DOMAIN drain : drain[k].pc # "done"}

\* C16: the wait group counts the drains that have not exited; the closing
\* goroutine gets past wg.Wait() only when every drain has exited, so
\* multiplexed is closed after the last of them, exactly once and by the
\* closing goroutine, and no drain writes to it once it is closed; with no
\* input channel it is closed with nothing delivered.
FanInClosesAfterReaders ==
    /\ wg = Cardinality(Running)
    /\ closer.pc \in {"close", "done"} => Running = {}
    /\ Closed("multiplexed") => Running = {}
    /\ outs["multiplexed"].closes = (IF closer.pc = "done" THEN 1 ELSE 0)
    /\ ~outs["multiplexed"].misuse
    /\ Len(channels) = 0 => outs["multiplexed"].recv = <<>>

\* C16's case: two drains, one delivered a value and the other gave its value
\* up on cancellation; both have exited and multiplexed is closed.
FanInClosesAfterReadersWitness ==
    /\ Len(channels) = 2
    /\ Closed("multiplexed")
    /\ ctxDone
    /\ Len(outs["multiplexed"].recv) = 1
    /\ Len(channels[1].sent) = 1 /\ Len(channels[2].sent) = 1

(* --------------------------- OrDone, continued ------------------------ *)

\* C17: whenever the context is cancelled, or never, the values OrDone has
\* delivered are a prefix of the values its input produced.
OrDoneDeliversPrefix ==
    IsPrefix(outs["OrDone.values"].recv, Original(1))

(* ------------------------- Or, every goroutine ------------------------ *)

\* Every goroutine Or has started, at any depth, has returned, and every
\* orDone channel is closed.
OrAllDone ==
    /\ \A t \in DOMAIN ortasks : ortasks[t].pc = "done"
    /\ \A c \in DOMAIN outs : Closed(c)
    /\ DOMAIN outs = {ortasks[t].orDone : t \in DOMAIN ortasks}

\* C18: handed two channels or more, once any of them has closed or delivered
\* a value every goroutine Or started, at every depth, eventually returns and
\* every orDone channel is eventually closed.
OrTasksTerminate ==
    \A i \in 1..MaxN :
        (Len(channels) >= 2 /\ i <= Len(channels) /\ Resolved(i))
            ~> (ortasks # <<>> /\ OrAllDone)

\* C18's case: of five channels only the first has closed or delivered a
\* value; the goroutine of the nested Or, which does not receive from it, has
\* returned as well.
OrTasksTerminateWitness ==
    /\ Len(channels) = 5
    /\ \A i \in 1..Len(channels) : Resolved(i) <=> i = 1
    /\ Len(ortasks) = 2
    /\ OrAllDone

(* ---------------------------- Tee, continued -------------------------- *)

\* How many values o has accepted.
Accepted(o) == Len(outs[o].recv)

\* How many values Tee's range has taken from OrDone.
TeeTaken == Len(outs["OrDone.values"].recv)

\* C19: with the context not cancelled, Tee takes the next value only when
\* both outputs have accepted the current one: outside the inner loop both
\* have accepted every value taken; inside it an output has accepted the
\* current value exactly if it is excluded (nil) from further offers, i counts
\* the outputs that have; so the two counts never differ by more than 1.
TeeLockStep ==
    ~ctxDone =>
        /\ Accepted("left") <= Accepted("right") + 1
        /\ Accepted("right") <= Accepted("left") + 1
        /\ tee.pc # "select" =>
              Accepted("left") = TeeTaken /\ Accepted("right") = TeeTaken
        /\ tee.pc = "select" =>
              /\ Accepted("left") =
                    (IF tee.out1 = "nil" THEN TeeTaken ELSE TeeTaken - 1)
              /\ Accepted("right") =
                    (IF tee.out2 = "nil" THEN TeeTaken ELSE TeeTaken - 1)
              /\ tee.i = Cardinality({o \in {"left", "right"} :
                                         Accepted(o) = TeeTaken})
              /\ tee.i < 2

\* C19's case: the second value has been accepted by the right output, which
\* is now excluded, and is still on offer to the left one.
TeeLockStepWitness ==
    /\ ~ctxDone
    /\ tee.pc = "select"
    /\ tee.out1 = "left" /\ tee.out2 = "nil"
    /\ Accepted("left") = 1 /\ Accepted("right") = 2

====
